---- MODULE Spec2Model ----
(***************************************************************************)
(* State-machine model of src/kb.py: the graph-backed knowledge base       *)
(* (KnowledgeBase), its pattern queries, and the lazy entity views          *)
(* (Person, Translator, Translation).                                       *)
(*                                                                         *)
(* The Fact Store (rdflib.Graph) is a set of triples <<s, p, o>>.  A term   *)
(* is <<"uri", x>> (URIRef) or <<"lit", x>> (Literal); predicates are kept  *)
(* by their local names.  Python's None is the empty tuple <<>> and a       *)
(* present value v is <<v>>.                                                *)
(***************************************************************************)
EXTENDS Naturals, Sequences, FiniteSets, TLC

VARIABLES
    fixture,        \* which files the file system holds (it never changes)
    graph,          \* KnowledgeBase.graph: the set of triples
    _translations,  \* KnowledgeBase._translations: <<>> or <<list object>>
    _translators,   \* KnowledgeBase._translators:  <<>> or <<list object>>
    view,           \* a Person / Translator built by a caller: <<>> or <<object>>
    tQueries,       \* times _translation_query was executed by this facade
    trQueries,      \* times _translator_query was executed by this facade
    imported,       \* paths parsed into this facade's graph so far
    op,             \* the last operation called
    arg,            \* its argument (a path, an index, an identifier)
    exc,            \* "" when it returned, else the exception it raised
    ret,            \* its return value
    lastT,          \* <<>> or <<the record of the previous translations() call>>
    lastTr          \* the same for translators()

vars == <<fixture, graph, _translations, _translators, view, tQueries, trQueries,
          imported, op, arg, exc, ret, lastT, lastTr>>

(***************************************************************************)
(* Bounds of the model.                                                    *)
(***************************************************************************)
MaxImports == 3
MaxQueries == 2

(***************************************************************************)
(* Terms.                                                                  *)
(***************************************************************************)
U(x) == <<"uri", x>>
L(x) == <<"lit", x>>
\* term.toPython(): the Python value of a term (str of a URIRef, value of a Literal)
toPython(t) == t[2]

None == <<>>
Some(v) == <<v>>

\* graph.objects(s, p)
objects(g, s, p) == {t[3] : t \in {x \in g : x[1] = s /\ x[2] = p}}

\* all orders in which an iterator may deliver the members of S
Orderings(S) ==
    {s \in [1..Cardinality(S) -> S] : \A i, j \in 1..Cardinality(S) : s[i] = s[j] => i = j}

(***************************************************************************)
(* Serialized graphs.  RoundTrip is the fixture of one translation: an      *)
(* original expression o1 in language A by author X, and its derivative e1  *)
(* in language B by translator T, realising work w1, which is part of issue *)
(* i1 of magazine m1, published at time span ts1.                           *)
(***************************************************************************)
Label(x) == L("label of " \o x)
Name(x) == L("name of " \o x)

PersonFacts(p) ==
    { <<U(p), "rdfs:label", Label(p)>>,
      <<U(p), "R13_has_appellation", U("appellation of " \o p)>>,
      <<U("appellation of " \o p), "R33_has_string", Name(p)>> }

RoundTrip(A, B, T, X) ==
    { <<U("e1"), "R76i_is_derivative_of", U("o1")>>,
      <<U("o1"), "P72_has_language", U(A)>>,
      <<U("e1"), "P72_has_language", U(B)>>,
      <<U("e1"), "R3_realises", U("w1")>>,
      <<U(A), "rdfs:label", Label(A)>>,
      <<U(B), "rdfs:label", Label(B)>>,
      <<U("e1"), "R17i_was_created_by", U("c1")>>,
      <<U(T), "P14i_performed", U("c1")>>,
      <<U("o1"), "R17i_was_created_by", U("c0")>>,
      <<U(X), "P14i_performed", U("c0")>>,
      <<U("w1"), "rdf:type", U("F1_Work")>>,
      <<U("w1"), "rdfs:label", Label("w1")>>,
      <<U("w1"), "P2_has_type", L("essay")>>,
      <<U("w1"), "R67i_is_part_of", U("i1")>>,
      <<U("i1"), "rdfs:label", Label("i1")>>,
      <<U("i1"), "R67i_is_part_of", U("m1")>>,
      <<U("m1"), "rdf:type", U("F18_Serial_Work")>>,
      <<U("m1"), "rdfs:label", Label("m1")>>,
      <<U("i1"), "R3i_is_realised_by", U("pe1")>>,
      <<U("pe1"), "R4i_is_embodied_in", U("mf1")>>,
      <<U("mf1"), "R24i_was_created_by", U("mc1")>>,
      <<U("mc1"), "P4_has_time_span", U("ts1")>>,
      <<U("ts1"), "P82_at_some_time_within", L("1923")>>,
      <<U("ts1"), "rdfs:label", L("1923-05")>> }
    \cup PersonFacts(T) \cup PersonFacts(X)

\* a.ttl: one translation, French to English, by p1, of a text by p2
FileA ==
    RoundTrip("fr", "en", "p1", "p2")
    \cup { <<U("p1"), "birthDate", L("1890-01-01")>>,
           <<U("p1"), "gender", L("female")>> }

\* b.ttl: a second derivative of o1, into German, by p1 and the unlabelled p3,
\* whose publication chain ends in a time span without a label; and a third
\* derivative of o1, in French as o1 is (an adaptation), by p2
FileB ==
    { <<U("e2"), "R76i_is_derivative_of", U("o1")>>,
      <<U("e2"), "P72_has_language", U("de")>>,
      <<U("de"), "rdfs:label", Label("de")>>,
      <<U("e2"), "R3_realises", U("w2")>>,
      <<U("e2"), "R17i_was_created_by", U("c2")>>,
      <<U("p1"), "P14i_performed", U("c2")>>,
      <<U("p3"), "P14i_performed", U("c2")>>,
      <<U("p3"), "R13_has_appellation", U("appellation of p3")>>,
      <<U("appellation of p3"), "R33_has_string", Name("p3")>>,
      <<U("w2"), "rdf:type", U("F1_Work")>>,
      <<U("w2"), "rdfs:label", Label("w2")>>,
      <<U("w2"), "P2_has_type", L("poem")>>,
      <<U("w2"), "R67i_is_part_of", U("i2")>>,
      <<U("i2"), "rdfs:label", Label("i2")>>,
      <<U("i2"), "R67i_is_part_of", U("m1")>>,
      <<U("i2"), "R3i_is_realised_by", U("pe2")>>,
      <<U("pe2"), "R4i_is_embodied_in", U("mf2")>>,
      <<U("mf2"), "R24i_was_created_by", U("mc2")>>,
      <<U("mc2"), "P4_has_time_span", U("ts2")>>,
      <<U("ts2"), "P82_at_some_time_within", L("1924")>>,
      <<U("e3"), "R76i_is_derivative_of", U("o1")>>,
      <<U("e3"), "P72_has_language", U("fr")>>,
      <<U("e3"), "R3_realises", U("w3")>>,
      <<U("e3"), "R17i_was_created_by", U("c3")>>,
      <<U("p2"), "P14i_performed", U("c3")>>,
      <<U("w3"), "rdf:type", U("F1_Work")>>,
      <<U("w3"), "P2_has_type", L("essay")>> }

\* d.ttl: further facts about the entities of a.ttl: a second work realised by
\* e1, a second label of English, a second appellation, a second label and a nationality of p1,
\* and the time span of another publication
FileD ==
    { <<U("e1"), "R3_realises", U("w1b")>>,
      <<U("e1"), "P72_has_language", U("fr")>>,
      <<U("en"), "rdfs:label", L("anglais")>>,
      <<U("p1"), "R13_has_appellation", U("alias of p1")>>,
      <<U("alias of p1"), "R33_has_string", L("alias of p1")>>,
      <<U("p1"), "nationality", L("russian")>>,
      <<U("p1"), "rdfs:label", L("P. One")>>,
      <<U("mc3"), "P4_has_time_span", U("ts3")>>,
      <<U("ts3"), "P82_at_some_time_within", L("1922")>>,
      <<U("ts3"), "rdfs:label", L("1922-11")>> }

Readable(triples) == [kind |-> "ok", triples |-> triples]
Missing == [kind |-> "missing", triples |-> {}]
Unreadable == [kind |-> "unreadable", triples |-> {}]

FacadeFiles ==
    [p \in {"a.ttl", "b.ttl", "d.ttl", "missing.ttl", "locked.ttl"} |->
        CASE p = "a.ttl" -> Readable(FileA)
          [] p = "b.ttl" -> Readable(FileB)
          [] p = "d.ttl" -> Readable(FileD)
          [] p = "missing.ttl" -> Missing
          [] OTHER -> Unreadable]

(***************************************************************************)
(* KnowledgeBase.__init__ and import_data.                                  *)
(***************************************************************************)
Fresh ==
    /\ graph = {}
    /\ _translations = None
    /\ _translators = None
    /\ view = None
    /\ tQueries = 0
    /\ trQueries = 0
    /\ imported = {}
    /\ op = "__init__"
    /\ arg = None
    /\ exc = ""
    /\ ret = None
    /\ lastT = None
    /\ lastTr = None

\* the corpus a.ttl, b.ttl, d.ttl; a.ttl is the round trip of Corpus
Corpus == [kind |-> "corpus", A |-> "fr", B |-> "en", T |-> "p1", X |-> "p2"]

\* the file system holding the one fixture of a round trip
FixtureFiles ==
    [p \in {"fixture.ttl", "missing.ttl"} |->
        IF p = "fixture.ttl"
        THEN Readable(RoundTrip(fixture.A, fixture.B, fixture.T, fixture.X))
        ELSE Missing]

\* the file system: path -> what graph.parse finds there
files == IF fixture.kind = "corpus" THEN FacadeFiles ELSE FixtureFiles

Init == fixture = Corpus /\ Fresh

\* the record of an earlier call, once the source data has been imported
Aged(last, data) ==
    IF last = None \/ data \in imported
    THEN last
    ELSE Some([last[1] EXCEPT !.stale = TRUE, !.qStale = TRUE])

\* the exception graph.parse(data) raises, "" when it parses the source
ParseError(f) ==
    CASE f.kind = "ok" -> ""
      [] f.kind = "missing" -> "FileNotFoundError"
      [] OTHER -> "PermissionError"

\* import_data with no except clause that matches
CaughtNothing(e) == FALSE

\* the except clauses of import_data
Caught(e) == e = "FileNotFoundError"

import_data(data) ==
    /\ op' = "import_data"
    /\ arg' = Some(data)
    /\ ret' = None
    /\ LET e == ParseError(files[data]) IN
         IF e = ""
         THEN /\ Cardinality(imported \cup {data}) <= MaxImports
              /\ graph' = graph \cup files[data].triples
              /\ imported' = imported \cup {data}
              /\ lastT' = Aged(lastT, data)
              /\ lastTr' = Aged(lastTr, data)
              /\ exc' = ""
         ELSE /\ exc' = (IF Caught(e) THEN "" ELSE e)
              /\ UNCHANGED <<graph, imported, lastT, lastTr>>
    /\ UNCHANGED <<fixture, _translations, _translators, view, tQueries, trQueries>>

\* a caller discards the facade and constructs a new one
NewFacade ==
    /\ op # "__init__"
    /\ graph' = {}
    /\ _translations' = None
    /\ _translators' = None
    /\ view' = None
    /\ tQueries' = 0
    /\ trQueries' = 0
    /\ imported' = {}
    /\ op' = "__init__"
    /\ arg' = None
    /\ exc' = ""
    /\ ret' = None
    /\ lastT' = None
    /\ lastTr' = None
    /\ UNCHANGED fixture

(***************************************************************************)
(* Pattern queries.  A query's solutions are the joins of the triples that  *)
(* match its patterns; po(g, p) is the (subject, object) pairs of p.        *)
(***************************************************************************)
po(g, p) == {<<t[1], t[3]>> : t \in {x \in g : x[2] = p}}

\* _translation_query without its FILTER
NoFilter(sl, tl) == TRUE

\* FILTER (?sl != ?tl) of _translation_query
TranslationFilter(sl, tl) == sl # tl

\* the solutions of _translation_query (SELECT *)
TranslationRows(g) ==
    LET D == po(g, "R76i_is_derivative_of")
        Lg == po(g, "P72_has_language")
        R == po(g, "R3_realises")
    IN  { [trans_expr |-> q[1][1], original_expr |-> q[1][2],
           sl |-> q[2][2], tl |-> q[3][2], trans_work |-> q[4][2]] :
          q \in { x \in D \X Lg \X Lg \X R :
                    /\ x[2][1] = x[1][2]
                    /\ x[3][1] = x[1][1]
                    /\ TranslationFilter(x[2][2], x[3][2])
                    /\ x[4][1] = x[1][1] } }

\* _translator_query without its rdfs:label pattern
NoLabelPattern(g, person) == TRUE

\* the ?person rdfs:label ?label pattern of _translator_query
HasLabelPattern(g, person) == objects(g, person, "rdfs:label") # {}

\* the solutions of _translator_query (select distinct ?person)
TranslatorRows(g) ==
    LET D == po(g, "R76i_is_derivative_of")
        C == po(g, "R17i_was_created_by")
        P == po(g, "P14i_performed")
    IN  { q[3][1] :
          q \in { x \in D \X C \X P :
                    /\ x[2][1] = x[1][1]
                    /\ x[3][2] = x[2][2]
                    /\ HasLabelPattern(g, x[3][1]) } }

\* Translation.__init__
NewTranslation(row) ==
    [work |-> row.trans_work, expr |-> row.trans_expr,
     original_expr |-> row.original_expr, _sl |-> row.sl, _tl |-> row.tl,
     _authors |-> None, _translators |-> None]

\* Person.__init__ / Translator.__init__
NewPerson(cls, uriref) == [cls |-> cls, id |-> uriref, _names |-> None]

\* "if not self._translations": an empty list counts as no cache
CacheMissFalsy(cache) == cache = None \/ Len(cache[1].items) = 0

\* no cache at all: every call queries
CacheMissAlways(cache) == TRUE

\* "if self._translations is None" / "if self._translators is None"
CacheMiss(cache) == cache = None

\* the record of a call of translations() or translators(): what it returned,
\* whether it executed the query, whether a new source was imported since the
\* call (stale), and since the query that filled the cache it returned (qStale)
CallRecord(result, queried, last) ==
    [ret |-> result, queried |-> queried, stale |-> FALSE,
     qStale |-> IF queried \/ last = None THEN FALSE ELSE last[1].qStale]

\* a new list object: its identity and its items
List(ref, items) == [ref |-> ref, items |-> items]

translations ==
    /\ op' = "translations"
    /\ arg' = None
    /\ exc' = ""
    /\ IF CacheMiss(_translations)
       THEN /\ tQueries < MaxQueries
            /\ tQueries' = tQueries + 1
            /\ \E rows \in Orderings(TranslationRows(graph)) :
                 _translations' =
                     Some(List(tQueries + 1,
                               [i \in DOMAIN rows |-> NewTranslation(rows[i])]))
       ELSE UNCHANGED <<_translations, tQueries>>
    /\ ret' = _translations'[1]
    /\ lastT' = Some(CallRecord(ret', CacheMiss(_translations), lastT))
    /\ UNCHANGED <<fixture, graph, _translators, view, trQueries, imported, lastTr>>

translators ==
    /\ op' = "translators"
    /\ arg' = None
    /\ exc' = ""
    /\ IF CacheMiss(_translators)
       THEN /\ trQueries < MaxQueries
            /\ trQueries' = trQueries + 1
            /\ \E rows \in Orderings(TranslatorRows(graph)) :
                 _translators' =
                     Some(List(trQueries + 1,
                               [i \in DOMAIN rows |-> NewPerson("Translator", rows[i])]))
       ELSE UNCHANGED <<_translators, trQueries>>
    /\ ret' = _translators'[1]
    /\ lastTr' = Some(CallRecord(ret', CacheMiss(_translators), lastTr))
    /\ UNCHANGED <<fixture, graph, _translations, view, tQueries, imported, lastT>>

(***************************************************************************)
(* Facet queries: recomputed on every call, never cached.                   *)
(***************************************************************************)
\* the solutions of the WHERE clause of source_language_facet
SourceFacetSolutions(g) ==
    LET D == po(g, "R76i_is_derivative_of")
        Lg == po(g, "P72_has_language")
        Lb == po(g, "rdfs:label")
    IN  { [translation |-> q[1][1], original |-> q[1][2],
           sl |-> q[2][2], tl |-> q[3][2], label |-> q[4][2]] :
          q \in { x \in D \X Lg \X Lg \X Lb :
                    /\ x[2][1] = x[1][2]
                    /\ x[3][1] = x[1][1]
                    /\ x[2][2] # x[3][2]
                    /\ x[4][1] = x[2][2] } }

\* the solutions of the WHERE clause of target_language_facet
TargetFacetSolutions(g) ==
    LET D == po(g, "R76i_is_derivative_of")
        Lg == po(g, "P72_has_language")
        Lb == po(g, "rdfs:label")
    IN  { [translation |-> q[1][1], original |-> q[1][2],
           sl |-> q[2][2], tl |-> q[3][2], label |-> q[4][2]] :
          q \in { x \in D \X Lg \X Lg \X Lb :
                    /\ x[2][1] = x[1][2]
                    /\ x[3][1] = x[1][1]
                    /\ x[2][2] # x[3][2]
                    /\ x[4][1] = x[3][2] } }

\* count(distinct ?sl): every group counts 1
SourceGroupsDistinct(Sol) == { <<k[1], k[2], 1>> : k \in {<<s.sl, s.label>> : s \in Sol} }

\* group by ?label ?sl with count(?sl): one <<sl, label, n>> per group
SourceGroups(Sol) ==
    { <<k[1], k[2], Cardinality({s \in Sol : s.sl = k[1] /\ s.label = k[2]})>> :
      k \in {<<s.sl, s.label>> : s \in Sol} }

\* group by ?label ?tl with count(?tl)
TargetGroups(Sol) ==
    { <<k[1], k[2], Cardinality({s \in Sol : s.tl = k[1] /\ s.label = k[2]})>> :
      k \in {<<s.tl, s.label>> : s \in Sol} }

\* the record built from one row of a language facet
LangRecord(row) ==
    [lang |-> toPython(row[1]), label |-> toPython(row[2]), count |-> row[3]]

\* the facets return new lists, which no other call sees
Facet(name, result) ==
    /\ op' = name
    /\ arg' = None
    /\ exc' = ""
    /\ ret' = result
    /\ UNCHANGED <<fixture, graph, _translations, _translators, view, tQueries,
                   trQueries, imported, lastT, lastTr>>

source_language_facet ==
    \E rows \in Orderings(SourceGroups(SourceFacetSolutions(graph))) :
        Facet("source_language_facet", [i \in DOMAIN rows |-> LangRecord(rows[i])])

target_language_facet ==
    \E rows \in Orderings(TargetGroups(TargetFacetSolutions(graph))) :
        Facet("target_language_facet", [i \in DOMAIN rows |-> LangRecord(rows[i])])

\* select distinct ?magazine ?label
MagazineRows(g) ==
    { <<q[1][1], q[2][2]>> :
      q \in { x \in po(g, "rdf:type") \X po(g, "rdfs:label") :
                x[1][2] = U("F18_Serial_Work") /\ x[2][1] = x[1][1] } }

magazine_facet ==
    \E rows \in Orderings(MagazineRows(graph)) :
        Facet("magazine_facet",
              [i \in DOMAIN rows |-> [magazine |-> toPython(rows[i][1]),
                                      label |-> toPython(rows[i][2])]])

\* select distinct ?genre
GenreRows(g) ==
    { q[2][2] :
      q \in { x \in po(g, "rdf:type") \X po(g, "P2_has_type") :
                x[1][2] = U("F1_Work") /\ x[2][1] = x[1][1] } }

genre_facet ==
    \E rows \in Orderings(GenreRows(graph)) :
        Facet("genre_facet",
              [i \in DOMAIN rows |-> [genre |-> toPython(rows[i]),
                                      label |-> toPython(rows[i])]])

\* select distinct ?label
PubdateRows(g) ==
    { q[3][2] :
      q \in { x \in po(g, "P4_has_time_span") \X po(g, "P82_at_some_time_within")
                    \X po(g, "rdfs:label") :
                x[2][1] = x[1][2] /\ x[3][1] = x[1][2] } }

\* the date literals of the files, in the order "order by" compares them
DateOrder == <<L("1922-11"), L("1923-05")>>
Rank(lit) == CHOOSE i \in DOMAIN DateOrder : DateOrder[i] = lit

\* order by ?label
OrderByLabel(S) ==
    {s \in Orderings(S) : \A i, j \in DOMAIN s : i < j => Rank(s[i]) < Rank(s[j])}

pubdate_facet ==
    \E rows \in OrderByLabel(PubdateRows(graph)) :
        Facet("pubdate_facet",
              [i \in DOMAIN rows |-> [pubDate |-> toPython(rows[i]),
                                      label |-> toPython(rows[i])]])

(***************************************************************************)
(* Entity views.  An access that returns leaves exc = "" and the value in   *)
(* ret; one that raises leaves the exception's name in exc.                 *)
(***************************************************************************)
Return(v) == [exc |-> "", val |-> v]
Raise(e) == [exc |-> e, val |-> None]

\* next(graph.objects(s, p)) hop by hop along preds, then .toPython(): every
\* result the store's iteration order allows; an empty hop raises StopIteration
RECURSIVE Chain(_, _, _)
Chain(g, s, preds) ==
    IF preds = <<>>
    THEN {Return(toPython(s))}
    ELSE IF objects(g, s, Head(preds)) = {}
         THEN {Raise("StopIteration")}
         ELSE UNION {Chain(g, o, Tail(preds)) : o \in objects(g, s, Head(preds))}

\* "self._names = [n.toPython() for n in names]" in the loop of Person.names
AssignNames(acc, names) == names

\* the loop of Person.names over the appellations in the order apps
RECURSIVE NamesLoop(_, _, _, _)
NamesLoop(g, apps, i, acc) ==
    IF i > Len(apps)
    THEN {acc}
    ELSE UNION { NamesLoop(g, apps, i + 1,
                           AssignNames(acc, [k \in DOMAIN s |-> toPython(s[k])])) :
                 s \in Orderings(objects(g, apps[i], "R33_has_string")) }

\* Person.names: the person object after the access (its _names is the result)
Names(g, person) ==
    IF person._names # None
    THEN {person}
    ELSE { [person EXCEPT !._names = Some(n)] :
           n \in UNION { NamesLoop(g, apps, 1, <<>>) :
                         apps \in Orderings(objects(g, person.id, "R13_has_appellation")) } }

\* the identifiers a caller may wrap in a view
PersonIds == {U("p1"), U("p2"), U("p3"), U("p4")}

\* a caller constructs Person(graph, uriref) or Translator(graph, uriref)
NewView(cls, uriref) ==
    /\ op' = "NewView"
    /\ arg' = Some(uriref)
    /\ exc' = ""
    /\ ret' = None
    /\ view' = Some(NewPerson(cls, uriref))
    /\ UNCHANGED <<fixture, graph, _translations, _translators, tQueries, trQueries,
                   imported, lastT, lastTr>>

Person_names ==
    /\ view # None
    /\ op' = "Person.names"
    /\ arg' = Some(view[1].id)
    /\ exc' = ""
    /\ \E p \in Names(graph, view[1]) :
         /\ view' = Some(p)
         /\ ret' = p._names[1]
    /\ UNCHANGED <<fixture, graph, _translations, _translators, tQueries, trQueries,
                   imported, lastT, lastTr>>

\* Person.to_dict: {"person": self.names[0]}
Person_to_dict ==
    /\ view # None
    /\ view[1].cls = "Person"
    /\ op' = "Person.to_dict"
    /\ arg' = Some(view[1].id)
    /\ \E p \in Names(graph, view[1]) :
         /\ view' = Some(p)
         /\ IF Len(p._names[1]) = 0
            THEN exc' = "IndexError" /\ ret' = None
            ELSE exc' = "" /\ ret' = [person |-> p._names[1][1]]
    /\ UNCHANGED <<fixture, graph, _translations, _translators, tQueries, trQueries,
                   imported, lastT, lastTr>>

\* the Translator objects a caller can hold: one it built, or one of translators()
Translators ==
    (IF view # None /\ view[1].cls = "Translator" THEN {view[1]} ELSE {})
    \cup (IF _translators = None THEN {}
          ELSE {_translators[1].items[i] : i \in DOMAIN _translators[1].items})

\* try: return next(graph.objects(self.id, p)).toPython()
\* except StopIteration: return None
Guarded(outcomes) ==
    { IF o.exc = "StopIteration" THEN Return(None)
      ELSE IF o.exc = "" THEN Return(Some(o.val)) ELSE o : o \in outcomes }

\* the same with no try statement around it
Unguarded(outcomes) ==
    {IF o.exc = "" THEN Return(Some(o.val)) ELSE o : o \in outcomes}

Label_(g, id) == Unguarded(Chain(g, id, <<"rdfs:label">>))
BirthDate(g, id) == Guarded(Chain(g, id, <<"birthDate">>))
DeathDate(g, id) == Guarded(Chain(g, id, <<"deathDate">>))
Gender(g, id) == Guarded(Chain(g, id, <<"gender">>))
Nationality(g, id) == Guarded(Chain(g, id, <<"nationality">>))

\* an access of a property of a view that changes no object
Access(name, id, outcomes) ==
    /\ op' = name
    /\ arg' = Some(id)
    /\ \E o \in outcomes : exc' = o.exc /\ ret' = o.val
    /\ UNCHANGED <<fixture, graph, _translations, _translators, view, tQueries,
                   trQueries, imported, lastT, lastTr>>

Translator_label ==
    \E t \in Translators : Access("Translator.label", t.id, Label_(graph, t.id))

Translator_birthDate ==
    \E t \in Translators : Access("Translator.birthDate", t.id, BirthDate(graph, t.id))

Translator_deathDate ==
    \E t \in Translators : Access("Translator.deathDate", t.id, DeathDate(graph, t.id))

Translator_gender ==
    \E t \in Translators : Access("Translator.gender", t.id, Gender(graph, t.id))

Translator_nationality ==
    \E t \in Translators :
        Access("Translator.nationality", t.id, Nationality(graph, t.id))

\* Translator.to_dict: the dict's values are evaluated in the order written
TranslatorDict(g, id) ==
    { IF l.exc # "" THEN Raise(l.exc)
      ELSE Return([id |-> id, label |-> l.val, birthDate |-> b.val,
                   deathDate |-> d.val, gender |-> ge.val, nationality |-> n.val]) :
      l \in Label_(g, id), b \in BirthDate(g, id), d \in DeathDate(g, id),
      ge \in Gender(g, id), n \in Nationality(g, id) }

Translator_to_dict ==
    \E t \in Translators :
        Access("Translator.to_dict", t.id, TranslatorDict(graph, t.id))

(***************************************************************************)
(* Translation views: the items of the list translations() returns.         *)
(***************************************************************************)
PubDate(g, t) ==
    Chain(g, t.work, <<"R67i_is_part_of", "R3i_is_realised_by", "R4i_is_embodied_in",
                       "R24i_was_created_by", "P4_has_time_span", "rdfs:label">>)
Magazine(g, t) == Chain(g, t.work, <<"R67i_is_part_of", "R67i_is_part_of", "rdfs:label">>)
Issue(g, t) == Chain(g, t.work, <<"R67i_is_part_of", "rdfs:label">>)
Genre(g, t) == Chain(g, t.work, <<"P2_has_type">>)
Sl(g, t) == Chain(g, t._sl, <<"rdfs:label">>)
Tl(g, t) == Chain(g, t._tl, <<"rdfs:label">>)

\* Translation.titles
Titles(g, t) ==
    { [i \in DOMAIN s |-> toPython(s[i])] : s \in Orderings(objects(g, t.work, "rdfs:label")) }

\* the query of Translation.authors without its is-derivative-of hop: the creation
\* event of ?expr itself
ExprCreations(g, expr) ==
    { <<expr, x[2]>> : x \in {y \in po(g, "R17i_was_created_by") : y[1] = expr} }

\* the creation event whose performers the query of Translation.authors selects:
\* that of an expression ?original that ?expr is a derivative of
AuthorCreations(g, expr) ==
    { <<q[1][2], q[2][2]>> :
      q \in { x \in po(g, "R76i_is_derivative_of") \X po(g, "R17i_was_created_by") :
                x[1][1] = expr /\ x[2][1] = x[1][2] } }

\* the solutions of the query of Translation.authors (SELECT ?person, one row for
\* each solution of the patterns)
AuthorSolutions(g, expr) ==
    { <<c[1], c[2], pp[1]>> :
      c \in AuthorCreations(g, expr),
      pp \in {x \in po(g, "P14i_performed") : \E d \in AuthorCreations(g, expr) : x[2] = d[2]} }

\* the solutions of the query of Translation.translators (SELECT distinct ?person)
TranslatorSolutions(g, expr) ==
    { q[2][1] :
      q \in { x \in po(g, "R17i_was_created_by") \X po(g, "P14i_performed") :
                x[1][1] = expr /\ x[2][2] = x[1][2] } }

\* Translation.authors: the lists self._authors may hold after the access
Authors(g, t) ==
    IF t._authors # None
    THEN {t._authors[1]}
    ELSE { [i \in DOMAIN s |-> NewPerson("Person", s[i][3])] :
           s \in Orderings({x \in AuthorSolutions(g, t.expr) :
                              \E y \in po(g, "P14i_performed") : y = <<x[3], x[2]>>}) }

\* Translation.translators: the lists self._translators may hold after the access
TranslatorsOf(g, t) ==
    IF t._translators # None
    THEN {t._translators[1]}
    ELSE { [i \in DOMAIN s |-> NewPerson("Person", s[i])] :
           s \in Orderings(TranslatorSolutions(g, t.expr)) }

Items == IF _translations = None THEN <<>> ELSE _translations[1].items

\* an access of item k that leaves it as the object t
Touch(name, k, t, outcome) ==
    /\ op' = name
    /\ arg' = Some(k)
    /\ exc' = outcome.exc
    /\ ret' = outcome.val
    /\ _translations' = Some([_translations[1] EXCEPT !.items[k] = t])
    /\ UNCHANGED <<fixture, graph, _translators, view, tQueries, trQueries,
                   imported, lastT, lastTr>>

Translation_pubDate ==
    \E k \in DOMAIN Items : \E o \in PubDate(graph, Items[k]) :
        Touch("Translation.pubDate", k, Items[k], o)

Translation_authors ==
    \E k \in DOMAIN Items : \E a \in Authors(graph, Items[k]) :
        Touch("Translation.authors", k, [Items[k] EXCEPT !._authors = Some(a)], Return(a))

Translation_translators ==
    \E k \in DOMAIN Items : \E a \in TranslatorsOf(graph, Items[k]) :
        Touch("Translation.translators", k,
              [Items[k] EXCEPT !._translators = Some(a)], Return(a))

\* Translation.to_dict: the values of the dict are evaluated in the order written,
\* and the first that raises ends the call; what was memoized before stays.
\* m, i, d, g_, s, l: the outcomes of magazine, issue, pubDate, genre, sl, tl;
\* au, tr: the lists of authors and translators; an, tn: their first persons after
\* .names; ti: the titles.
ToDict(t, m, i, d, au, an, ti, tr, tn, g_, s, l) ==
    IF m.exc # "" THEN [obj |-> t, out |-> m]
    ELSE IF i.exc # "" THEN [obj |-> t, out |-> i]
    ELSE IF d.exc # "" THEN [obj |-> t, out |-> d]
    ELSE IF Len(au) = 0
    THEN [obj |-> [t EXCEPT !._authors = Some(au)], out |-> Raise("IndexError")]
    ELSE LET t1 == [t EXCEPT !._authors = Some([au EXCEPT ![1] = an])] IN
    IF Len(an._names[1]) = 0 THEN [obj |-> t1, out |-> Raise("IndexError")]
    ELSE IF Len(ti) = 0 THEN [obj |-> t1, out |-> Raise("IndexError")]
    ELSE IF Len(tr) = 0
    THEN [obj |-> [t1 EXCEPT !._translators = Some(tr)], out |-> Raise("IndexError")]
    ELSE LET t2 == [t1 EXCEPT !._translators = Some([tr EXCEPT ![1] = tn])] IN
    IF Len(tn._names[1]) = 0 THEN [obj |-> t2, out |-> Raise("IndexError")]
    ELSE IF g_.exc # "" THEN [obj |-> t2, out |-> g_]
    ELSE IF s.exc # "" THEN [obj |-> t2, out |-> s]
    ELSE IF l.exc # "" THEN [obj |-> t2, out |-> l]
    ELSE [obj |-> t2,
          out |-> Return([magazine |-> m.val, issue |-> i.val, pubDate |-> d.val,
                          author |-> an._names[1][1], title |-> ti[1],
                          translator |-> tn._names[1][1], genre |-> g_.val,
                          source_language |-> s.val, target_language |-> l.val])]

\* the first person of a list after its .names, when it has one
FirstNames(g, persons) ==
    IF Len(persons) = 0 THEN {NewPerson("Person", U("nobody"))} ELSE Names(g, persons[1])

Translation_to_dict ==
    \E k \in DOMAIN Items :
      LET t == Items[k] IN
      \E m \in Magazine(graph, t), i \in Issue(graph, t), d \in PubDate(graph, t) :
      \E au \in Authors(graph, t), ti \in Titles(graph, t) :
      \E an \in FirstNames(graph, au) :
      \E tr \in TranslatorsOf(graph, t) :
      \E tn \in FirstNames(graph, tr) :
      \E g_ \in Genre(graph, t), s \in Sl(graph, t), l \in Tl(graph, t) :
        LET r == ToDict(t, m, i, d, au, an, ti, tr, tn, g_, s, l) IN
        Touch("Translation.to_dict", k, r.obj, r.out)

(***************************************************************************)
(* The facade: a caller constructs it, imports, and queries.                *)
(***************************************************************************)
Next ==
    \/ NewFacade
    \/ \E data \in DOMAIN files : import_data(data)
    \/ translations
    \/ translators
    \/ source_language_facet
    \/ target_language_facet
    \/ magazine_facet
    \/ genre_facet
    \/ pubdate_facet

Spec == Init /\ [][Next]_vars

(***************************************************************************)
(* Properties of the facade (checked under Spec).                           *)
(***************************************************************************)
Range(f) == {f[i] : i \in DOMAIN f}

RECURSIVE SumCounts(_)
SumCounts(rows) ==
    IF Len(rows) = 0 THEN 0 ELSE rows[1].count + SumCounts(Tail(rows))

\* the triples of the sources parsed into this facade
ImportedFacts == UNION {files[f].triples : f \in imported}

\* the rows the items of a list of Translations were built from
RowsOf(items) ==
    { [trans_expr |-> t.expr, original_expr |-> t.original_expr,
       sl |-> t._sl, tl |-> t._tl, trans_work |-> t.work] : t \in Range(items) }

\* C1: every Translation of the list translations() returns, whatever was
\* imported, has a source-language identifier different from its target-language
\* identifier.
C1_SourceDiffersFromTarget ==
    /\ \A t \in Range(Items) : t._sl # t._tl
    /\ op = "translations" => \A t \in Range(ret.items) : t._sl # t._tl

\* translations() has just run its query on a store that holds an expression and
\* an original it derives from in one and the same language, and returned a
\* Translation
C1_Witness ==
    /\ op = "translations"
    /\ lastT[1].queried
    /\ Len(ret.items) >= 1
    /\ \E d \in po(graph, "R76i_is_derivative_of") :
         /\ objects(graph, d[1], "R3_realises") # {}
         /\ objects(graph, d[1], "P72_has_language")
              \cap objects(graph, d[2], "P72_has_language") # {}

\* C2: a call of translations() that follows an earlier call on the same facade
\* with no new source imported in between returns the very list (same identity, same items) the
\* earlier call returned and does not execute the query; the query is executed at
\* most once per facade, also when the first result was empty.
C2_SecondCallIsCached ==
    /\ [](tQueries <= 1)
    /\ [][ (op' = "translations" /\ lastT # None /\ ~lastT[1].stale)
             => (ret' = lastT[1].ret /\ tQueries' = tQueries) ]_vars

\* a second call of translations() has returned the cached empty list
C2_Witness ==
    /\ op = "translations"
    /\ ~lastT[1].queried
    /\ ~lastT[1].qStale
    /\ Len(ret.items) = 0
    /\ tQueries = 1

\* the persons who performed a creation event of a derivative expression
DerivativeCreators(g) ==
    { t[1] : t \in { x \in g :
        /\ x[2] = "P14i_performed"
        /\ \E e \in g : /\ e[2] = "R17i_was_created_by" /\ e[3] = x[3]
                        /\ \E d \in g : d[2] = "R76i_is_derivative_of" /\ d[1] = e[1] } }

ExactlyOnce(ids, items) ==
    /\ {t.id : t \in Range(items)} = ids
    /\ \A i, j \in DOMAIN items : items[i].id = items[j].id => i = j

\* C3 as stated: translators(), when it executes its query, returns exactly the
\* persons who performed a creation event of a derivative expression, each once.
C3_AllDerivativeCreators ==
    (op = "translators" /\ lastTr[1].queried)
        => ExactlyOnce(DerivativeCreators(graph), ret.items)

\* C3 amended: translators(), when it executes its query, returns exactly the
\* persons who performed a creation event of a derivative expression and have at
\* least one rdfs:label fact, each exactly once, however many such creation
\* events and labels the person has.
C3_LabelledDerivativeCreators ==
    (op = "translators" /\ lastTr[1].queried)
        => ExactlyOnce({p \in DerivativeCreators(graph) :
                          \E t \in graph : t[1] = p /\ t[2] = "rdfs:label"},
                       ret.items)

\* translators() has run its query on a store where p1 performed the creation
\* events of two derivative expressions and has two labels, and returned p1
C3_Witness ==
    /\ op = "translators"
    /\ lastTr[1].queried
    /\ U("p1") \in {t.id : t \in Range(ret.items)}
    /\ Cardinality({c \in objects(graph, U("p1"), "P14i_performed") :
            \E e \in po(graph, "R17i_was_created_by") :
                e[2] = c /\ objects(graph, e[1], "R76i_is_derivative_of") # {}}) >= 2
    /\ Cardinality(objects(graph, U("p1"), "rdfs:label")) >= 2

OneWorkOneLabel(g) ==
    /\ \A d \in po(g, "R76i_is_derivative_of") :
         Cardinality(objects(g, d[1], "R3_realises")) = 1
    /\ \A l \in po(g, "P72_has_language") :
         Cardinality(objects(g, l[2], "rdfs:label")) = 1

C9_FailedImportIsSilent ==
    [][ (op' = "import_data" /\ files[arg'[1]].kind # "ok")
          => /\ exc' = ""
             /\ graph' = graph
             /\ _translations' = _translations
             /\ _translators' = _translators ]_vars

\* C9 amended: import_data with a missing source (graph.parse raises
\* FileNotFoundError) returns normally and leaves the store and both cached
\* collections as they were, before and after the caches are populated.
C9_MissingImportIsSilent ==
    [][ (op' = "import_data" /\ files[arg'[1]].kind = "missing")
          => /\ exc' = ""
             /\ ret' = None
             /\ graph' = graph
             /\ _translations' = _translations
             /\ _translators' = _translators ]_vars

\* import_data was called with a missing source on a facade with facts and both
\* caches populated
C9_Witness ==
    /\ op = "import_data"
    /\ files[arg[1]].kind = "missing"
    /\ graph # {}
    /\ _translations # None /\ Len(Items) >= 1
    /\ _translators # None

\* C10: a call of translations() or translators() after an earlier call and a
\* later import returns the list the earlier call returned, so nothing the import
\* contributed; a facet called then shows every labelled target language of the
\* store's translations; and a facade that queries only after its imports gets
\* the translations of all it imported.
C10_NoInvalidation ==
    /\ [][ (op' = "translations" /\ lastT # None /\ lastT[1].stale)
             => (ret' = lastT[1].ret /\ tQueries' = tQueries) ]_vars
    /\ [][ (op' = "translators" /\ lastTr # None /\ lastTr[1].stale)
             => (ret' = lastTr[1].ret /\ trQueries' = trQueries) ]_vars
    /\ [](op = "target_language_facet"
            => \A r \in TranslationRows(graph) :
                 objects(graph, r.tl, "rdfs:label") # {}
                   => toPython(r.tl) \in {x.lang : x \in Range(ret)})
    /\ []((op = "translations" /\ ~lastT[1].qStale)
            => RowsOf(ret.items) = TranslationRows(ImportedFacts))

\* translations() has returned its cached list although a later import added a
\* translation to the store
C10_Witness ==
    /\ op = "translations"
    /\ ~lastT[1].queried
    /\ lastT[1].qStale
    /\ Len(ret.items) >= 1
    /\ Cardinality(TranslationRows(graph)) > Len(ret.items)

(***************************************************************************)
(* Person and Translator views: a caller imports, builds or obtains the     *)
(* views and reads their properties.                                        *)
(***************************************************************************)
NextPeople ==
    \/ \E data \in DOMAIN files : import_data(data)
    \/ translators
    \/ \E cls \in {"Person", "Translator"}, id \in PersonIds : NewView(cls, id)
    \/ Person_names
    \/ Person_to_dict
    \/ Translator_label
    \/ Translator_birthDate
    \/ Translator_deathDate
    \/ Translator_gender
    \/ Translator_nationality
    \/ Translator_to_dict

SpecPeople == Init /\ [][NextPeople]_vars

(***************************************************************************)
(* Properties of the Person and Translator views (checked under SpecPeople).*)
(***************************************************************************)
\* the predicate a biographical property of Translator looks up
PredicateOf(property) ==
    CASE property = "Translator.label" -> "rdfs:label"
      [] property = "Translator.birthDate" -> "birthDate"
      [] property = "Translator.deathDate" -> "deathDate"
      [] property = "Translator.gender" -> "gender"
      [] OTHER -> "nationality"

\* C4: an access of label, birthDate, deathDate, gender or nationality of a
\* Translator never raises and returns None when the store holds no fact of the
\* property's predicate for the translator; Translator.to_dict() never raises.
C4_AbsentFactIsNone ==
    /\ op \in {"Translator.label", "Translator.birthDate", "Translator.deathDate",
               "Translator.gender", "Translator.nationality"}
         => /\ exc = ""
            /\ objects(graph, arg[1], PredicateOf(op)) = {} => ret = None
    /\ op = "Translator.to_dict" => exc = ""

\* every name string of every appellation of a person
AllNameStrings(g, id) ==
    { toPython(n) : n \in UNION { objects(g, a, "R33_has_string") :
                                  a \in objects(g, id, "R13_has_appellation") } }

\* C6: the first access of Person.names returns a sequence that holds every name
\* string of every appellation of the person, the empty sequence when the person
\* has no appellation; a later access returns the sequence the first computed.
C6_NamesOfAllAppellations ==
    /\ [][ (op' = "Person.names" /\ view # None /\ view[1]._names = None)
             => /\ AllNameStrings(graph, view[1].id) \subseteq Range(ret')
                /\ objects(graph, view[1].id, "R13_has_appellation") = {}
                     => Len(ret') = 0 ]_vars
    /\ [][ (op' = "Person.names" /\ view # None /\ view[1]._names # None)
             => ret' = view[1]._names[1] ]_vars

(***************************************************************************)
(* Translation views: a caller imports, calls translations() and reads the  *)
(* items' properties.                                                       *)
(***************************************************************************)
NextTranslations ==
    \/ \E data \in DOMAIN files : import_data(data)
    \/ translations
    \/ Translation_pubDate
    \/ Translation_to_dict

SpecTranslations == Init /\ [][NextTranslations]_vars

(***************************************************************************)
(* The round trip: the file system holds one fixture graph, of one          *)
(* translation from language A into language B by T of a text by X.         *)
(***************************************************************************)
Languages == {"ru", "en", "fr"}
People == {"p1", "p2", "p3"}

InitRT ==
    /\ \E A \in Languages, B \in Languages, T \in People, X \in People :
         /\ A # B
         /\ fixture = [kind |-> "round trip", A |-> A, B |-> B, T |-> T, X |-> X]
    /\ Fresh

NextRT ==
    \/ \E data \in DOMAIN files : import_data(data)
    \/ translations
    \/ Translation_pubDate
    \/ Translation_authors
    \/ Translation_translators
    \/ Translation_to_dict

SpecRT == InitRT /\ [][NextRT]_vars

(***************************************************************************)
(* Properties of the Translation views (checked under SpecTranslations and  *)
(* SpecRT).                                                                 *)
(***************************************************************************)
\* the terms reached from the terms of S along preds, following every object
RECURSIVE Reach(_, _, _)
Reach(g, S, preds) ==
    IF preds = <<>> THEN S
    ELSE Reach(g, UNION {objects(g, x, Head(preds)) : x \in S}, Tail(preds))

\* the time spans at the end of the publication chain of a work
TimeSpans(g, work) ==
    Reach(g, {work}, <<"R67i_is_part_of", "R3i_is_realised_by", "R4i_is_embodied_in",
                       "R24i_was_created_by", "P4_has_time_span">>)

\* the publication chain of the work is there but for the label of its time span
OnlyLabelMissing(g, work) ==
    /\ Cardinality(TimeSpans(g, work)) = 1
    /\ \A ts \in TimeSpans(g, work) : objects(g, ts, "rdfs:label") = {}

\* C7: pubDate of a Translation whose publication chain lacks only the label of
\* the time span returns an absent value (None) and does not raise; the other
\* Translations of the list are there and their pubDate is returned.
C7_MissingLabelGivesNone ==
    op = "Translation.pubDate"
      => /\ OnlyLabelMissing(graph, Items[arg[1]].work) => (exc = "" /\ ret = None)
         /\ (\A ts \in TimeSpans(graph, Items[arg[1]].work) :
                objects(graph, ts, "rdfs:label") # {})
              /\ TimeSpans(graph, Items[arg[1]].work) # {} => exc = ""

\* the dict the round trip of the fixture RoundTrip(A, B, T, X) is to give
Expected(A, B, T, X) ==
    [magazine |-> "label of m1", issue |-> "label of i1", pubDate |-> "1923-05",
     author |-> "name of " \o X, title |-> "label of w1",
     translator |-> "name of " \o T, genre |-> "essay",
     source_language |-> "label of " \o A, target_language |-> "label of " \o B]

\* C8: on a facade that imported the fixture of one translation from A into B by
\* T of a text by X and then called translations(), the list holds exactly one
\* Translation, and its to_dict() returns the record of the fixture: the author
\* is the name of X, who created the original, the translator the name of T, who
\* created the translation.
C8_RoundTrip ==
    /\ (op = "translations" /\ imported = {"fixture.ttl"} /\ ~lastT[1].qStale)
          => /\ Len(ret.items) = 1
             /\ ret.items[1]._sl = U(fixture.A)
             /\ ret.items[1]._tl = U(fixture.B)
    /\ op = "Translation.to_dict"
          => /\ exc = ""
             /\ ret = Expected(fixture.A, fixture.B, fixture.T, fixture.X)

\* to_dict of the one Translation has returned, with an author who is not the
\* translator
C8_Witness ==
    /\ op = "Translation.to_dict"
    /\ exc = ""
    /\ Len(Items) = 1
    /\ ret.author # ret.translator

====
